---- MODULE Spec2Model ----
(***************************************************************************)
(* Model of src/lcd.rs: the Lcd display session over an HD44780 controller *)
(* reached through an I2C backpack.                                        *)
(*                                                                         *)
(* The controller (hd44780_driver), the delay source (embassy_time::Delay) *)
(* and the formatters (itoa, ryu) are external crates.  Every call the     *)
(* session makes on them is recorded as one event of `trace`; the result   *)
(* of a controller call is an input of the action that makes it.           *)
(*                                                                         *)
(* `trace`, `elapsed`, `result`, `cmd` and `cd` describe the operation     *)
(* that ran last (construction or one command); the time t of an event is  *)
(* counted from the start of its operation and `elapsed` is how long the   *)
(* operation took.  When `track` is set, `prevCmd` names the operation     *)
(* before it (SpecPaced); otherwise it stays "none" (Spec).  `args` is the  *)
(* argument the caller passed to the last command.  When `keep` is set     *)
(* (SpecHist), `hist` is the session's log of waits and controller calls   *)
(* since construction and `issued` counts the commands; otherwise they     *)
(* stay empty.  `owner` and `job` follow, one call at a time, the commands  *)
(* that several tasks issue on the session (SpecTasks): owner is the task  *)
(* holding the `&mut` borrow of the session (0: nobody), job[t] the        *)
(* command task t has in progress.                                         *)
(* update_screen_time is the session's field; it means something only once *)
(* pc = "ready".                                                           *)
(***************************************************************************)
EXTENDS Integers, Sequences, FiniteSets

VARIABLES pc, update_screen_time, configured, cmd, cd, args, trace, elapsed,
          result, log, inits, track, prevCmd, keep, hist, issued, owner, job

vars == <<pc, update_screen_time, configured, cmd, cd, args, trace, elapsed,
          result, log, inits, track, prevCmd, keep, hist, issued, owner, job>>

(***************************************************************************)
(* Bounds.                                                                 *)
(***************************************************************************)
MaxUst == 2           \* largest update_screen_time, in ms
MaxCapTime == 1       \* longest duration of one controller call, in ms
MaxCmds == 2          \* commands issued on a session whose log is kept
NumTasks == 2         \* tasks that want to use the session
MaxInt == 120         \* largest magnitude given to display_int in SpecFormat

(***************************************************************************)
(* Input domains.                                                          *)
(***************************************************************************)
USTs == 0 .. MaxUst
CapTimes == 0 .. MaxCapTime
Causes == {"E1", "E2"}                   \* opaque hd44780_driver::error::Error values
Texts == {<<72, 105>>}                   \* "Hi"
Bytes == {255}
ByteSeqs == {<<1, 2>>}
Chars == {65}
Ints == {-12, 0, 7}
FloatHalves == {3, -1}                   \* floats given in halves: 1.5, -0.5
Positions == {0, 64}
IntRange == -MaxInt .. MaxInt            \* the integers of SpecFormat
DisplayModes == {"On", "Off"}            \* hd44780_driver::Display
Directions == {"Left", "Right"}          \* CursorMoveDirection

Tasks == 1 .. NumTasks

BUS_ADDRESS == 39                        \* 0x27


(***************************************************************************)
(* Results.  A controller call returns Ok(()) or Err(cause); a command     *)
(* returns Ok(()) or Err((tag, cause)).                                    *)
(***************************************************************************)
Ok == [kind |-> "Ok", tag |-> "-", cause |-> "-"]
Err(tag, cause) == [kind |-> "Err", tag |-> tag, cause |-> cause]
NoResult == [kind |-> "None", tag |-> "-", cause |-> "-"]

CapOk == [ok |-> TRUE, cause |-> "-"]
CapErr(c) == [ok |-> FALSE, cause |-> c]
CapResults == {CapOk} \cup {CapErr(c) : c \in Causes}

LcdErrors == {"ClearError", "ResetError", "DisplayError", "WriteError", "CursorError"}

\* .map_err(|e| ($error, e)) of lcd_try! and of every command
map_err(r, tag) == IF r.ok THEN Ok ELSE Err(tag, r.cause)

(***************************************************************************)
(* Events.  m (self, in a command) carries the operation in progress: the  *)
(* calls made so far (trace), the simulated time (clock) and, in a         *)
(* command, the session's update_screen_time.                              *)
(***************************************************************************)
NoArg == [enum |-> "-", num |-> 0, data |-> <<>>, flag |-> FALSE]
EnumArg(e) == [enum |-> e, num |-> 0, data |-> <<>>, flag |-> FALSE]
NumArg(n) == [enum |-> "-", num |-> n, data |-> <<>>, flag |-> FALSE]
DataArg(s) == [enum |-> "-", num |-> 0, data |-> s, flag |-> FALSE]
FlagArg(b) == [enum |-> "-", num |-> 0, data |-> <<>>, flag |-> b]

Event(op, arg, r, t) ==
    [op |-> op, enum |-> arg.enum, num |-> arg.num, data |-> arg.data,
     flag |-> arg.flag, ok |-> r.ok, cause |-> r.cause, t |-> t]

\* self.delay.delay_ms(ms): cannot fail, lasts ms
delay_ms(m, ms) ==
    [m EXCEPT !.trace = Append(m.trace, Event("wait", NumArg(ms), CapOk, m.clock)),
              !.clock = m.clock + ms]

\* self.driver.<op>(arg, &mut self.delay): returns r after d ms
Call(m, op, arg, r, d) ==
    [m EXCEPT !.trace = Append(m.trace, Event(op, arg, r, m.clock)),
              !.clock = m.clock + d]

Capabilities == {"clear", "reset", "set_display", "set_cursor_pos",
                 "set_cursor_visibility", "set_cursor_blink", "shift_cursor",
                 "set_autoscroll", "write_str", "write_byte", "write_bytes",
                 "write_char"}
WriteFamily == {"write_str", "write_byte", "write_bytes", "write_char"}

\* the names of the calls of a trace, in order
OpsOf(tr) == [i \in 1 .. Len(tr) |-> tr[i].op]

(***************************************************************************)
(* Formatters.  Text is a sequence of byte values, as itoa and ryu write   *)
(* it into their buffers.                                                  *)
(***************************************************************************)
RECURSIVE Digits(_)
Digits(n) ==
    IF n < 10 THEN <<48 + n>> ELSE Digits(n \div 10) \o <<48 + (n % 10)>>

\* itoa::Buffer::format(num)
itoa_format(num) ==
    IF num < 0 THEN <<45>> \o Digits(-num) ELSE Digits(num)

\* ryu::Buffer::format(num) for a float given as h halves (h/2): the
\* shortest decimal that round-trips, always with a fractional part
ryu_format(h) ==
    LET a == IF h < 0 THEN -h ELSE h
        body == Digits(a \div 2) \o <<46>> \o (IF a % 2 = 1 THEN <<53>> ELSE <<48>>)
    IN IF h < 0 THEN <<45>> \o body ELSE body

(***************************************************************************)
(* Construction: Lcd::new and Lcd::initialize_lcd.                         *)
(***************************************************************************)
\* the six lcd_try! lines of initialize_lcd, with the tag each one gives
InitSteps ==
    << [op |-> "clear", arg |-> NoArg, tag |-> "ClearError"],
       [op |-> "reset", arg |-> NoArg, tag |-> "ResetError"],
       [op |-> "set_display", arg |-> EnumArg("On"), tag |-> "DisplayError"],
       [op |-> "set_cursor_pos", arg |-> NumArg(0), tag |-> "DisplayError"],
       [op |-> "set_cursor_visibility", arg |-> EnumArg("Invisible"), tag |-> "CursorError"],
       [op |-> "set_cursor_blink", arg |-> EnumArg("Off"), tag |-> "CursorError"] >>

NumInitSteps == Len(InitSteps)

\* steps k.. of initialize_lcd: lcd_try! returns at the first failure
RECURSIVE InitFrom(_, _, _, _)
InitFrom(m, k, rs, d) ==
    IF k > NumInitSteps THEN [m |-> m, res |-> Ok]
    ELSE LET m1 == Call(m, InitSteps[k].op, InitSteps[k].arg, rs[k], d)
         IN IF rs[k].ok THEN InitFrom(m1, k + 1, rs, d)
            ELSE [m |-> m1, res |-> map_err(rs[k], InitSteps[k].tag)]

\* mutant: the clear step is missing
initialize_lcd_skips_clear(m, rs, d) == InitFrom(m, 2, rs, d)

\* rs[k] is what the controller answers to step k
initialize_lcd(m, rs, d) == InitFrom(m, 1, rs, d)

\* mutant: a second settling wait after the handle is built
new_waits_again(ust, drv, rs, d) ==
    LET m0 == delay_ms([trace |-> <<>>, clock |-> 0], ust)
        m1 == delay_ms(Call(m0, "new_i2c", NumArg(BUS_ADDRESS), drv, d), ust)
    IN IF ~drv.ok
       THEN [m |-> m1, res |-> NoResult, log |-> "", session |-> FALSE,
             update_screen_time |-> 0]
       ELSE LET i == initialize_lcd(m1, rs, d)
            IN [m |-> i.m, res |-> i.res,
                log |-> IF i.res.kind = "Ok" THEN "LCD Initialized Successfully"
                        ELSE "LCD Init Failed",
                session |-> TRUE, update_screen_time |-> ust]

\* mutant: the failure of new_i2c is ignored instead of unwrapped
new_without_unwrap(ust, drv, rs, d) ==
    LET m0 == delay_ms([trace |-> <<>>, clock |-> 0], ust)
        m1 == Call(m0, "new_i2c", NumArg(BUS_ADDRESS), drv, d)
        i == initialize_lcd(m1, rs, d)
    IN [m |-> i.m, res |-> i.res,
        log |-> IF i.res.kind = "Ok" THEN "LCD Initialized Successfully"
                ELSE "LCD Init Failed",
        session |-> TRUE, update_screen_time |-> ust]

\* Lcd::new: the settling wait, the controller handle (unwrap panics when
\* its construction fails), the initialization, the log line, the session
new(ust, drv, rs, d) ==
    LET m0 == delay_ms([trace |-> <<>>, clock |-> 0], ust)
        m1 == Call(m0, "new_i2c", NumArg(BUS_ADDRESS), drv, d)
    IN IF ~drv.ok
       THEN [m |-> m1, res |-> NoResult, log |-> "", session |-> FALSE,
             update_screen_time |-> 0]
       ELSE LET i == initialize_lcd(m1, rs, d)
            IN [m |-> i.m, res |-> i.res,
                log |-> IF i.res.kind = "Ok" THEN "LCD Initialized Successfully"
                        ELSE "LCD Init Failed",
                session |-> TRUE, update_screen_time |-> ust]

(***************************************************************************)
(* Commands.  self = [update_screen_time, trace, clock]; each returns      *)
(* [m, res]: the calls made and the Result handed to the caller.           *)
(***************************************************************************)
\* mutant: clear_display paces itself
clear_display_waits(self, rc, d) ==
    LET m1 == Call(delay_ms(self, self.update_screen_time), "clear", NoArg, rc, d)
    IN [m |-> m1, res |-> map_err(rc, "ClearError")]

clear_display(self, rc, d) ==
    LET m1 == Call(self, "clear", NoArg, rc, d)
    IN [m |-> m1, res |-> map_err(rc, "ClearError")]

\* mutant: the error of the pre-clear is tagged as a write error
PreClear_write_tag(self, clr, rc, d) ==
    IF clr THEN [m |-> clear_display(self, rc, d).m, res |-> map_err(rc, "WriteError")]
    ELSE [m |-> self, res |-> Ok]

\* if clear_display { self.clear_display().await?; }
PreClear(self, clr, rc, d) ==
    IF clr THEN clear_display(self, rc, d) ELSE [m |-> self, res |-> Ok]

\* mutant: the `?` after the pre-clear is missing, the write goes ahead
Write_after_failed_clear(c, op, arg, rw, d) ==
    [m |-> Call(c.m, op, arg, rw, d),
     res |-> IF c.res.kind # "Ok" THEN c.res ELSE map_err(rw, "WriteError")]

\* mutant: a failed write is tried once more
Write_retry(c, op, arg, rw, d) ==
    IF c.res.kind # "Ok" THEN c
    ELSE LET m1 == Call(c.m, op, arg, rw, d)
         IN [m |-> IF rw.ok THEN m1 ELSE Call(m1, op, arg, rw, d),
             res |-> map_err(rw, "WriteError")]

\* the write that ends every display command
Write(c, op, arg, rw, d) ==
    IF c.res.kind # "Ok" THEN c
    ELSE [m |-> Call(c.m, op, arg, rw, d), res |-> map_err(rw, "WriteError")]

display_text(self, text, clr, rc, rw, d) ==
    LET m1 == delay_ms(self, self.update_screen_time)
    IN Write(PreClear(m1, clr, rc, d), "write_str", DataArg(text), rw, d)

display_byte(self, byte, clr, rc, rw, d) ==
    LET m1 == delay_ms(self, self.update_screen_time)
    IN Write(PreClear(m1, clr, rc, d), "write_byte", NumArg(byte), rw, d)

display_bytes(self, bytes, clr, rc, rw, d) ==
    LET m1 == delay_ms(self, self.update_screen_time)
    IN Write(PreClear(m1, clr, rc, d), "write_bytes", DataArg(bytes), rw, d)

\* mutant: the wait comes after the pre-clear
display_char_waits_late(self, char, clr, rc, rw, d) ==
    LET c == PreClear(self, clr, rc, d)
    IN Write([c EXCEPT !.m = delay_ms(c.m, self.update_screen_time)],
             "write_char", NumArg(char), rw, d)

display_char(self, char, clr, rc, rw, d) ==
    LET m1 == delay_ms(self, self.update_screen_time)
    IN Write(PreClear(m1, clr, rc, d), "write_char", NumArg(char), rw, d)

\* mutant: the magnitude is formatted, the sign is lost
display_int_unsigned(self, num, clr, rc, rw, d) ==
    Write(PreClear(self, clr, rc, d), "write_str",
          DataArg(itoa_format(IF num < 0 THEN -num ELSE num)), rw, d)

display_int(self, num, clr, rc, rw, d) ==
    Write(PreClear(self, clr, rc, d), "write_str", DataArg(itoa_format(num)), rw, d)

display_float(self, num, clr, rc, rw, d) ==
    Write(PreClear(self, clr, rc, d), "write_str", DataArg(ryu_format(num)), rw, d)

\* mutant: reset_display runs the whole initialization again
reset_display_reinit(self, r, d) ==
    initialize_lcd(delay_ms(self, self.update_screen_time),
                   [k \in 1 .. NumInitSteps |-> r], d)

\* mutant: reset_display also resets the interval
reset_display_zeroes_time(self, r, d) ==
    LET m1 == delay_ms(self, self.update_screen_time)
    IN [m |-> [Call(m1, "reset", NoArg, r, d) EXCEPT !.update_screen_time = 0],
        res |-> map_err(r, "ResetError")]

reset_display(self, r, d) ==
    LET m1 == delay_ms(self, self.update_screen_time)
    IN [m |-> Call(m1, "reset", NoArg, r, d), res |-> map_err(r, "ResetError")]

\* mutant: the display is cleared before its mode is set
set_display_mode_clears(self, display_mode, r, d) ==
    LET m1 == Call(delay_ms(self, self.update_screen_time), "clear", NoArg, CapOk, d)
    IN [m |-> Call(m1, "set_display", EnumArg(display_mode), r, d),
        res |-> map_err(r, "DisplayError")]

set_display_mode(self, display_mode, r, d) ==
    LET m1 == delay_ms(self, self.update_screen_time)
    IN [m |-> Call(m1, "set_display", EnumArg(display_mode), r, d),
        res |-> map_err(r, "DisplayError")]

set_cursor_visibility(self, visible, r, d) ==
    LET m1 == delay_ms(self, self.update_screen_time)
        visibillity == IF visible THEN "Visible" ELSE "Invisible"
    IN [m |-> Call(m1, "set_cursor_visibility", EnumArg(visibillity), r, d),
        res |-> map_err(r, "CursorError")]

\* mutant: the two branches are swapped
set_cursor_blink_inverted(self, blink, r, d) ==
    LET m1 == delay_ms(self, self.update_screen_time)
        cursor_blink == IF blink THEN "Off" ELSE "On"
    IN [m |-> Call(m1, "set_cursor_blink", EnumArg(cursor_blink), r, d),
        res |-> map_err(r, "CursorError")]

set_cursor_blink(self, blink, r, d) ==
    LET m1 == delay_ms(self, self.update_screen_time)
        cursor_blink == IF blink THEN "On" ELSE "Off"
    IN [m |-> Call(m1, "set_cursor_blink", EnumArg(cursor_blink), r, d),
        res |-> map_err(r, "CursorError")]

\* mutant: the tag of the write commands is used
move_cursor_direction_write_tag(self, move_direction, r, d) ==
    [m |-> Call(self, "shift_cursor", EnumArg(move_direction), r, d),
     res |-> map_err(r, "WriteError")]

move_cursor_direction(self, move_direction, r, d) ==
    IF move_direction = "Left"
    THEN [m |-> Call(self, "shift_cursor", EnumArg("Left"), r, d),
          res |-> map_err(r, "CursorError")]
    ELSE [m |-> Call(self, "shift_cursor", EnumArg("Right"), r, d),
          res |-> map_err(r, "CursorError")]

set_autoscroll(self, enable, r, d) ==
    [m |-> Call(self, "set_autoscroll", FlagArg(enable), r, d),
     res |-> map_err(r, "CursorError")]

\* mutant: the pre-wait is missing
set_cursor_pos_unpaced(self, position, r, d) ==
    [m |-> Call(self, "set_cursor_pos", NumArg(position), r, d),
     res |-> map_err(r, "CursorError")]

set_cursor_pos(self, position, r, d) ==
    LET m1 == delay_ms(self, self.update_screen_time)
    IN [m |-> Call(m1, "set_cursor_pos", NumArg(position), r, d),
        res |-> map_err(r, "CursorError")]

(***************************************************************************)
(* The state machine.                                                      *)
(***************************************************************************)
InitWith(tracking, keeping) ==
    /\ track = tracking
    /\ keep = keeping
    /\ hist = <<>>
    /\ issued = 0
    /\ args = NoArg
    /\ owner = 0
    /\ job = [t \in Tasks |-> [busy |-> FALSE, name |-> "none", events |-> <<>>, next |-> 1]]
    /\ pc = "boot"
    /\ configured \in USTs
    /\ update_screen_time = 0
    /\ elapsed = 0
    /\ cmd = "none"
    /\ cd = FALSE
    /\ trace = <<>>
    /\ result = NoResult
    /\ log = ""
    /\ inits = 0
    /\ prevCmd = "none"

Init == InitWith(FALSE, FALSE)

InitPaced == InitWith(TRUE, FALSE)

InitHist == InitWith(FALSE, TRUE)

\* the caller runs Lcd::new(.., configured)
New ==
    /\ pc = "boot"
    /\ \E drv \in CapResults, rs \in [1 .. NumInitSteps -> CapResults], d \in CapTimes :
         LET out == new(configured, drv, rs, d)
         IN /\ pc' = IF out.session THEN "ready" ELSE "panicked"
            /\ update_screen_time' = out.update_screen_time
            /\ elapsed' = out.m.clock
            /\ trace' = out.m.trace
            /\ result' = out.res
            /\ log' = out.log
            /\ inits' = inits + (IF drv.ok THEN 1 ELSE 0)
    /\ cmd' = "new"
    /\ cd' = FALSE
    /\ args' = NoArg
    /\ prevCmd' = IF track THEN cmd ELSE "none"
    /\ UNCHANGED <<configured, track, keep, hist, issued, owner, job>>

\* the session as a command finds it
Self == [update_screen_time |-> update_screen_time, trace |-> <<>>, clock |-> 0]

\* mutant: a command identical to the one before it is coalesced with it
Ran_coalesced(name, clr, a, out) ==
    /\ cmd' = name
    /\ cd' = clr
    /\ args' = a
    /\ trace' = out.m.trace
    /\ elapsed' = out.m.clock
    /\ update_screen_time' = out.m.update_screen_time
    /\ result' = out.res
    /\ prevCmd' = IF track THEN cmd ELSE "none"
    /\ hist' = IF keep /\ ~(name = cmd /\ OpsOf(out.m.trace) = OpsOf(trace))
               THEN hist \o OpsOf(out.m.trace) ELSE IF keep THEN hist ELSE <<>>
    /\ issued' = IF keep THEN issued + 1 ELSE 0
    /\ UNCHANGED <<pc, configured, log, inits, track, keep, owner, job>>

\* a command named name, called with argument a and clear_display = clr,
\* ran as out: its calls reached the controller, its Result the caller
Ran(name, clr, a, out) ==
    /\ cmd' = name
    /\ cd' = clr
    /\ args' = a
    /\ trace' = out.m.trace
    /\ elapsed' = out.m.clock
    /\ update_screen_time' = out.m.update_screen_time
    /\ result' = out.res
    /\ prevCmd' = IF track THEN cmd ELSE "none"
    /\ hist' = IF keep THEN hist \o OpsOf(out.m.trace) ELSE <<>>
    /\ issued' = IF keep THEN issued + 1 ELSE 0
    /\ UNCHANGED <<pc, configured, log, inits, track, keep, owner, job>>

\* mutant: a ready flag, set by a clean initialization, gates the commands
CanCall_needs_ready ==
    pc = "ready" /\ log = "LCD Initialized Successfully" /\ (keep => issued < MaxCmds)

\* a command needs a session: &mut self
CanCall == pc = "ready" /\ (keep => issued < MaxCmds)

\* what the controller can answer to the pre-clear of a display command:
\* there is an answer only when the clear is issued
ClearResults(clr) == IF clr THEN CapResults ELSE {CapOk}

DisplayText ==
    /\ CanCall
    /\ \E text \in Texts, clr \in BOOLEAN, rw \in CapResults, d \in CapTimes :
       \E rc \in ClearResults(clr) :
         Ran("display_text", clr, DataArg(text), display_text(Self, text, clr, rc, rw, d))

DisplayByte ==
    /\ CanCall
    /\ \E byte \in Bytes, clr \in BOOLEAN, rw \in CapResults, d \in CapTimes :
       \E rc \in ClearResults(clr) :
         Ran("display_byte", clr, NumArg(byte), display_byte(Self, byte, clr, rc, rw, d))

DisplayBytes ==
    /\ CanCall
    /\ \E bytes \in ByteSeqs, clr \in BOOLEAN, rw \in CapResults, d \in CapTimes :
       \E rc \in ClearResults(clr) :
         Ran("display_bytes", clr, DataArg(bytes), display_bytes(Self, bytes, clr, rc, rw, d))

DisplayChar ==
    /\ CanCall
    /\ \E char \in Chars, clr \in BOOLEAN, rw \in CapResults, d \in CapTimes :
       \E rc \in ClearResults(clr) :
         Ran("display_char", clr, NumArg(char), display_char(Self, char, clr, rc, rw, d))

DisplayInt ==
    /\ CanCall
    /\ \E num \in Ints, clr \in BOOLEAN, rw \in CapResults, d \in CapTimes :
       \E rc \in ClearResults(clr) :
         Ran("display_int", clr, NumArg(num), display_int(Self, num, clr, rc, rw, d))

DisplayFloat ==
    /\ CanCall
    /\ \E num \in FloatHalves, clr \in BOOLEAN, rw \in CapResults, d \in CapTimes :
       \E rc \in ClearResults(clr) :
         Ran("display_float", clr, NumArg(num), display_float(Self, num, clr, rc, rw, d))

ClearDisplay ==
    /\ CanCall
    /\ \E r \in CapResults, d \in CapTimes :
         Ran("clear_display", FALSE, NoArg, clear_display(Self, r, d))

ResetDisplay ==
    /\ CanCall
    /\ \E r \in CapResults, d \in CapTimes :
         Ran("reset_display", FALSE, NoArg, reset_display(Self, r, d))

SetDisplayMode ==
    /\ CanCall
    /\ \E display_mode \in DisplayModes, r \in CapResults, d \in CapTimes :
         Ran("set_display_mode", FALSE, EnumArg(display_mode),
             set_display_mode(Self, display_mode, r, d))

SetCursorVisibility ==
    /\ CanCall
    /\ \E visible \in BOOLEAN, r \in CapResults, d \in CapTimes :
         Ran("set_cursor_visibility", FALSE, FlagArg(visible),
             set_cursor_visibility(Self, visible, r, d))

SetCursorBlink ==
    /\ CanCall
    /\ \E blink \in BOOLEAN, r \in CapResults, d \in CapTimes :
         Ran("set_cursor_blink", FALSE, FlagArg(blink),
             set_cursor_blink(Self, blink, r, d))

MoveCursorDirection ==
    /\ CanCall
    /\ \E move_direction \in Directions, r \in CapResults, d \in CapTimes :
         Ran("move_cursor_direction", FALSE, EnumArg(move_direction),
             move_cursor_direction(Self, move_direction, r, d))

SetAutoscroll ==
    /\ CanCall
    /\ \E enable \in BOOLEAN, r \in CapResults, d \in CapTimes :
         Ran("set_autoscroll", FALSE, FlagArg(enable),
             set_autoscroll(Self, enable, r, d))

SetCursorPos ==
    /\ CanCall
    /\ \E position \in Positions, r \in CapResults, d \in CapTimes :
         Ran("set_cursor_pos", FALSE, NumArg(position),
             set_cursor_pos(Self, position, r, d))

Next ==
    \/ New
    \/ DisplayText
    \/ DisplayByte
    \/ DisplayBytes
    \/ DisplayChar
    \/ DisplayInt
    \/ DisplayFloat
    \/ ClearDisplay
    \/ ResetDisplay
    \/ SetDisplayMode
    \/ SetCursorVisibility
    \/ SetCursorBlink
    \/ MoveCursorDirection
    \/ SetAutoscroll
    \/ SetCursorPos

Spec == Init /\ [][Next]_vars

\* the same machine, remembering which operation came before the last one
SpecPaced == InitPaced /\ [][Next]_vars

(***************************************************************************)
(* Several tasks on one session.  A command method takes `&mut self`: the  *)
(* call borrows the session exclusively until the command returns.  The    *)
(* command's calls are followed one at a time.                             *)
(***************************************************************************)
\* every way a command can run on the session as it is
CommandRuns ==
    {[name |-> "display_text", out |-> display_text(Self, text, clr, rc, rw, d)] :
        text \in Texts, clr \in BOOLEAN, rc \in CapResults, rw \in CapResults, d \in CapTimes}
    \cup {[name |-> "display_byte", out |-> display_byte(Self, byte, clr, rc, rw, d)] :
        byte \in Bytes, clr \in BOOLEAN, rc \in CapResults, rw \in CapResults, d \in CapTimes}
    \cup {[name |-> "display_bytes", out |-> display_bytes(Self, bytes, clr, rc, rw, d)] :
        bytes \in ByteSeqs, clr \in BOOLEAN, rc \in CapResults, rw \in CapResults, d \in CapTimes}
    \cup {[name |-> "display_char", out |-> display_char(Self, char, clr, rc, rw, d)] :
        char \in Chars, clr \in BOOLEAN, rc \in CapResults, rw \in CapResults, d \in CapTimes}
    \cup {[name |-> "display_int", out |-> display_int(Self, num, clr, rc, rw, d)] :
        num \in Ints, clr \in BOOLEAN, rc \in CapResults, rw \in CapResults, d \in CapTimes}
    \cup {[name |-> "display_float", out |-> display_float(Self, num, clr, rc, rw, d)] :
        num \in FloatHalves, clr \in BOOLEAN, rc \in CapResults, rw \in CapResults, d \in CapTimes}
    \cup {[name |-> "clear_display", out |-> clear_display(Self, r, d)] :
        r \in CapResults, d \in CapTimes}
    \cup {[name |-> "reset_display", out |-> reset_display(Self, r, d)] :
        r \in CapResults, d \in CapTimes}
    \cup {[name |-> "set_display_mode", out |-> set_display_mode(Self, display_mode, r, d)] :
        display_mode \in DisplayModes, r \in CapResults, d \in CapTimes}
    \cup {[name |-> "set_cursor_visibility", out |-> set_cursor_visibility(Self, visible, r, d)] :
        visible \in BOOLEAN, r \in CapResults, d \in CapTimes}
    \cup {[name |-> "set_cursor_blink", out |-> set_cursor_blink(Self, blink, r, d)] :
        blink \in BOOLEAN, r \in CapResults, d \in CapTimes}
    \cup {[name |-> "move_cursor_direction", out |-> move_cursor_direction(Self, move_direction, r, d)] :
        move_direction \in Directions, r \in CapResults, d \in CapTimes}
    \cup {[name |-> "set_autoscroll", out |-> set_autoscroll(Self, enable, r, d)] :
        enable \in BOOLEAN, r \in CapResults, d \in CapTimes}
    \cup {[name |-> "set_cursor_pos", out |-> set_cursor_pos(Self, position, r, d)] :
        position \in Positions, r \in CapResults, d \in CapTimes}

\* mutant: the methods take a shared `&self`
CanBorrow_shared(t) == pc = "ready"

\* task t can take the `&mut` borrow a command method needs: nobody holds it
CanBorrow(t) == pc = "ready" /\ owner = 0

\* task t calls a command: the borrow is taken, nothing has run yet
TaskCall ==
    \E t \in Tasks :
        /\ ~job[t].busy
        /\ CanBorrow(t)
        /\ \E run \in CommandRuns :
              job' = [job EXCEPT ![t] = [busy |-> TRUE, name |-> run.name,
                                         events |-> run.out.m.trace, next |-> 1]]
        /\ owner' = t
        /\ UNCHANGED <<pc, update_screen_time, configured, cmd, cd, args, trace,
                       elapsed, result, log, inits, track, prevCmd, keep, hist, issued>>

\* the command of task t makes its next call (delay_ms or a driver call)
TaskStep ==
    \E t \in Tasks :
        /\ job[t].busy
        /\ job[t].next <= Len(job[t].events)
        /\ job' = [job EXCEPT ![t].next = @ + 1]
        /\ UNCHANGED <<pc, update_screen_time, configured, cmd, cd, args, trace,
                       elapsed, result, log, inits, track, prevCmd, keep, hist, issued,
                       owner>>

\* the command of task t returns: the borrow ends
TaskReturn ==
    \E t \in Tasks :
        /\ job[t].busy
        /\ job[t].next > Len(job[t].events)
        /\ job' = [job EXCEPT ![t] = [busy |-> FALSE, name |-> "none",
                                       events |-> <<>>, next |-> 1]]
        /\ owner' = IF owner = t THEN 0 ELSE owner
        /\ UNCHANGED <<pc, update_screen_time, configured, cmd, cd, args, trace,
                       elapsed, result, log, inits, track, prevCmd, keep, hist, issued>>

NextTasks ==
    \/ New
    \/ TaskCall
    \/ TaskStep
    \/ TaskReturn

SpecTasks == Init /\ [][NextTasks]_vars

(***************************************************************************)
(* display_int over a range of integers, as the first command of a         *)
(* session.                                                                *)
(***************************************************************************)
DisplayIntRange ==
    /\ CanCall
    /\ cmd = "new"
    /\ \E num \in IntRange, clr \in BOOLEAN, rw \in CapResults, d \in CapTimes :
       \E rc \in ClearResults(clr) :
         Ran("display_int", clr, NumArg(num), display_int(Self, num, clr, rc, rw, d))

NextFormat ==
    \/ New
    \/ DisplayIntRange

SpecFormat == Init /\ [][NextFormat]_vars

\* the same machine, keeping the session's log over MaxCmds commands
SpecHist == InitHist /\ [][Next]_vars

TypeOK ==
    /\ pc \in {"boot", "ready", "panicked"}
    /\ configured \in USTs
    /\ update_screen_time \in USTs
    /\ elapsed \in Nat
    /\ cd \in BOOLEAN
    /\ result.kind \in {"Ok", "Err", "None"}
    /\ inits \in 0 .. 1
    /\ keep \in BOOLEAN
    /\ issued \in 0 .. MaxCmds

(***************************************************************************)
(* Vocabulary of the properties.                                           *)
(***************************************************************************)
IsCapEvent(e) == e.op \in Capabilities
IsWaitEvent(e) == e.op = "wait"

\* the controller calls of a trace, in order
Caps(tr) == SelectSeq(tr, IsCapEvent)
Waits(tr) == SelectSeq(tr, IsWaitEvent)

IsCommand == cmd \notin {"none", "new"}

DisplayCommands == {"display_text", "display_byte", "display_bytes",
                    "display_char", "display_int", "display_float"}

\* the command table: the pre-wait column
PreWaitYes == {"display_text", "display_byte", "display_bytes", "display_char",
               "reset_display", "set_display_mode", "set_cursor_visibility",
               "set_cursor_blink", "set_cursor_pos"}
PreWaitNo == {"display_int", "display_float", "clear_display",
              "move_cursor_direction", "set_autoscroll"}

\* the command table: the error tag column
TableTag(c) ==
    IF c \in DisplayCommands THEN "WriteError"
    ELSE IF c = "clear_display" THEN "ClearError"
    ELSE IF c = "reset_display" THEN "ResetError"
    ELSE IF c = "set_display_mode" THEN "DisplayError"
    ELSE "CursorError"

\* the initialization sequence as the specification lists it:
\* capability, enum argument, numeric argument
ExpectedInit ==
    << <<"clear", "-", 0>>, <<"reset", "-", 0>>, <<"set_display", "On", 0>>,
       <<"set_cursor_pos", "-", 0>>, <<"set_cursor_visibility", "Invisible", 0>>,
       <<"set_cursor_blink", "Off", 0>> >>

\* construction got its controller handle
HandleOk == Len(trace) >= 2 /\ trace[2].op = "new_i2c" /\ trace[2].ok

(***************************************************************************)
(* C1: construction invokes clear, reset, set_display(On),                 *)
(* set_cursor_pos(0), set_cursor_visibility(Invisible),                    *)
(* set_cursor_blink(Off) in this order, each at most once; nothing is      *)
(* invoked after a step that fails; a session is returned whether the      *)
(* steps succeed or one of them fails.                                     *)
(***************************************************************************)
C1_InitOrder ==
    (cmd = "new" /\ HandleOk) =>
        LET caps == Caps(trace)
            n == Len(caps)
        IN /\ n \in 1 .. Len(ExpectedInit)
           /\ \A i \in 1 .. n :
                /\ caps[i].op = ExpectedInit[i][1]
                /\ caps[i].enum = ExpectedInit[i][2]
                /\ caps[i].num = ExpectedInit[i][3]
           /\ \A i \in 1 .. n - 1 : caps[i].ok
           /\ (n < Len(ExpectedInit) => ~caps[n].ok)
           /\ pc = "ready"

\* set_display(On) failed: three steps ran, the session exists
C1_Witness ==
    /\ cmd = "new"
    /\ pc = "ready"
    /\ Len(Caps(trace)) = 3
    /\ ~Caps(trace)[3].ok

(***************************************************************************)
(* C2: a command marked pre-wait "yes" waits exactly once, before its      *)
(* controller calls; a command marked "no" never waits, whatever its       *)
(* arguments (clear_display = true included).                              *)
(***************************************************************************)
C2_PreWait ==
    /\ cmd \in PreWaitYes =>
          /\ Len(Waits(trace)) = 1
          /\ trace[1].op = "wait"
          /\ Len(Caps(trace)) >= 1
    /\ cmd \in PreWaitNo => Len(Waits(trace)) = 0

\* display_int with clear_display = true: clear and write, no wait
C2_Witness ==
    /\ cmd = "display_int"
    /\ cd
    /\ OpsOf(trace) = <<"clear", "write_str">>

(***************************************************************************)
(* C3 as stated: a display command called with clear_display = true issues *)
(* exactly one clear immediately followed by exactly one write-family      *)
(* call; with false, no clear and exactly one write-family call.           *)
(***************************************************************************)
C3_Original ==
    cmd \in DisplayCommands =>
        LET ops == OpsOf(Caps(trace))
        IN IF cd THEN Len(ops) = 2 /\ ops[1] = "clear" /\ ops[2] \in WriteFamily
           ELSE Len(ops) = 1 /\ ops[1] \in WriteFamily

(***************************************************************************)
(* C3 amended: with clear_display = true the command issues exactly one    *)
(* clear; when that clear succeeds it is immediately followed by exactly   *)
(* one write-family call, and when it fails no write-family call is made.  *)
(* With false: no clear and exactly one write-family call.                 *)
(***************************************************************************)
C3_ClearThenWrite ==
    cmd \in DisplayCommands =>
        LET ops == OpsOf(Caps(trace))
            n == Len(trace)
        IN IF ~cd THEN Len(ops) = 1 /\ ops[1] \in WriteFamily
           ELSE IF Caps(trace)[1].ok
                THEN /\ Len(ops) = 2 /\ ops[1] = "clear" /\ ops[2] \in WriteFamily
                     /\ trace[n - 1].op = "clear" /\ trace[n].op \in WriteFamily
                ELSE ops = <<"clear">>

\* a pre-clear that failed: the clear alone
C3_Witness ==
    /\ cmd = "display_bytes"
    /\ cd
    /\ OpsOf(trace) = <<"wait", "clear">>
    /\ ~trace[2].ok

(***************************************************************************)
(* C4 as stated: any controller failure during a command makes it return   *)
(* Err((tag, cause)) with the tag of the command table for that command    *)
(* and the cause the controller returned.                                  *)
(***************************************************************************)
C4_Original ==
    IsCommand =>
        \A i \in 1 .. Len(trace) :
            ~trace[i].ok => result = Err(TableTag(cmd), trace[i].cause)

(***************************************************************************)
(* C4 amended: a failure of the command's own capability makes it return   *)
(* Err((tag, cause)) with the tag of the command table; a failure of the   *)
(* pre-clear of a display command makes it return Err((ClearError,         *)
(* cause)); the cause is the value the controller returned, unchanged.     *)
(***************************************************************************)
C4_Tags ==
    IsCommand =>
        /\ \A i \in 1 .. Len(trace) :
              ~trace[i].ok =>
                  IF cmd \in DisplayCommands /\ trace[i].op = "clear"
                  THEN result = Err("ClearError", trace[i].cause)
                  ELSE result = Err(TableTag(cmd), trace[i].cause)
        /\ (\A i \in 1 .. Len(trace) : trace[i].ok) => result = Ok

\* move_cursor_direction(Left) failing with the second cause
C4_Witness ==
    /\ cmd = "move_cursor_direction"
    /\ Len(trace) = 1
    /\ trace[1].enum = "Left"
    /\ ~trace[1].ok
    /\ result = Err("CursorError", "E2")

(***************************************************************************)
(* C5: when two commands marked pre-wait "yes" are issued one after the    *)
(* other, every controller call of the second starts at least              *)
(* update_screen_time after the first returned, hence after each of the    *)
(* first command's controller calls.                                       *)
(***************************************************************************)
C5_Pacing ==
    (prevCmd \in PreWaitYes /\ cmd \in PreWaitYes) =>
        \A i \in 1 .. Len(trace) :
            IsCapEvent(trace[i]) => trace[i].t >= update_screen_time

\* set_cursor_pos right after display_text, with a non-zero interval
C5_Witness ==
    /\ prevCmd = "display_text"
    /\ cmd = "set_cursor_pos"
    /\ update_screen_time = MaxUst
    /\ Len(trace) = 2
    /\ trace[2].t = MaxUst

(***************************************************************************)
(* C6: a failure of an initialization step is tagged as the command table  *)
(* tags the command using that capability: clear ClearError, reset         *)
(* ResetError, set_display DisplayError, set_cursor_pos,                   *)
(* set_cursor_visibility and set_cursor_blink CursorError.                 *)
(***************************************************************************)
C6_InitTags ==
    (cmd = "new" /\ result.kind = "Err") =>
        LET failed == trace[Len(trace)].op
        IN result.tag =
             IF failed = "clear" THEN "ClearError"
             ELSE IF failed = "reset" THEN "ResetError"
             ELSE IF failed = "set_display" THEN "DisplayError"
             ELSE "CursorError"

\* set_cursor_pos(0) failed during construction
C6_Witness ==
    /\ cmd = "new"
    /\ result.kind = "Err"
    /\ trace[Len(trace)].op = "set_cursor_pos"

(***************************************************************************)
(* C7: a command runs only once construction has returned, the             *)
(* initialization sequence runs once per session, and no command (not      *)
(* reset_display either) invokes more than one of its capabilities.        *)
(***************************************************************************)
IsInitCap(e) == e.op \in {ExpectedInit[i][1] : i \in 1 .. Len(ExpectedInit)}

C7_Step ==
    /\ cmd' = "new" => (pc = "boot" /\ inits = 0)
    /\ cmd' \notin {"none", "new"} =>
          /\ pc = "ready"
          /\ cmd # "none"
          /\ inits = 1
          /\ inits' = 1
          /\ Len(SelectSeq(trace', IsInitCap)) <= 1
          /\ (cmd' = "reset_display" => OpsOf(Caps(trace')) = <<"reset">>)

C7_InitOnce == [][C7_Step]_vars

\* reset_display on a session whose initialization had failed
C7_Witness ==
    /\ cmd = "reset_display"
    /\ log = "LCD Init Failed"
    /\ inits = 1
    /\ OpsOf(trace) = <<"wait", "reset">>

(***************************************************************************)
(* C8: construction waits exactly once, for the configured                 *)
(* update-screen-time, before the clear call, and not again.               *)
(***************************************************************************)
C8_SettlingWait ==
    cmd = "new" =>
        /\ Len(Waits(trace)) = 1
        /\ trace[1].op = "wait"
        /\ trace[1].num = configured
        /\ \A i \in 1 .. Len(trace) :
              IsCapEvent(trace[i]) => (i > 1 /\ trace[i].t >= configured)

\* a complete construction with the longest interval
C8_Witness ==
    /\ cmd = "new"
    /\ configured = MaxUst
    /\ Len(trace) = 8
    /\ trace[3].op = "clear"
    /\ trace[3].t >= MaxUst

(***************************************************************************)
(* C9: when the controller handle (bus address 0x27) cannot be built,      *)
(* construction ends as a startup failure: no session, no initialization   *)
(* capability invoked, no (LcdError, cause) value, and no command can      *)
(* ever be issued.                                                         *)
(***************************************************************************)
C9_StartupFailure ==
    /\ (cmd = "new" /\ ~HandleOk) =>
          /\ pc = "panicked"
          /\ trace[2].op = "new_i2c"
          /\ trace[2].num = 39
          /\ Caps(trace) = <<>>
          /\ result = NoResult
          /\ inits = 0
    /\ pc = "panicked" => (cmd = "new" /\ ~HandleOk /\ ~ENABLED Next)

\* new_i2c failed with the first cause
C9_Witness ==
    /\ pc = "panicked"
    /\ Len(trace) = 2
    /\ trace[2].cause = "E1"

(***************************************************************************)
(* C10: no retry, no rollback: a capability that fails is invoked once by  *)
(* the command and is its last call; when the pre-clear succeeds and the   *)
(* write fails the command's calls are the clear then the failed write.    *)
(***************************************************************************)
C10_NoRetry ==
    IsCommand =>
        /\ \A i \in 1 .. Len(trace) :
              ~trace[i].ok =>
                  /\ i = Len(trace)
                  /\ result.kind = "Err"
                  /\ Cardinality({j \in 1 .. Len(trace) : trace[j].op = trace[i].op}) = 1
        /\ (cmd \in DisplayCommands /\ cd /\ Caps(trace)[1].ok /\ result.kind = "Err") =>
              LET caps == Caps(trace)
              IN /\ Len(caps) = 2
                 /\ caps[1].op = "clear"
                 /\ caps[2].op \in WriteFamily
                 /\ ~caps[2].ok

\* display_text: the pre-clear succeeded, the write failed
C10_Witness ==
    /\ cmd = "display_text"
    /\ cd
    /\ OpsOf(trace) = <<"wait", "clear", "write_str">>
    /\ trace[2].ok
    /\ ~trace[3].ok

(***************************************************************************)
(* C11: commands take effect in issue order, without queuing, coalescing   *)
(* or reordering: each command appends its own waits and controller calls  *)
(* to the session's log, so the log is the concatenation of the commands'  *)
(* traces, and every command, a repeated one too, adds a controller call.  *)
(***************************************************************************)
C11_Step ==
    issued' = issued + 1 =>
        /\ cmd' \notin {"none", "new"}
        /\ hist' = hist \o OpsOf(trace')
        /\ Len(Caps(trace')) >= 1
        /\ (issued = 0 => hist = <<>>)

C11_ProgramOrder == [][C11_Step]_vars

\* reset_display issued twice in a row: two waits, two resets
C11_Witness ==
    /\ keep
    /\ issued = 2
    /\ cmd = "reset_display"
    /\ hist = <<"wait", "reset", "wait", "reset">>

(***************************************************************************)
(* C12: a session has a single writer: at most one command is in progress  *)
(* at any time, so a wait, pre-clear or capability call of one task's      *)
(* command never falls between the calls of another task's command.        *)
(***************************************************************************)
InProgress(j) == {t \in Tasks : j[t].busy}

C12_Step ==
    /\ Cardinality(InProgress(job')) <= 1
    /\ \A t \in Tasks :
          (job[t].busy /\ job'[t].busy /\ job'[t].next > job[t].next) =>
              \A u \in Tasks \ {t} : ~job[u].busy /\ ~job'[u].busy

C12_SingleWriter == [][C12_Step]_vars

\* task 2 is between the wait and the pre-clear of a display command;
\* task 1 has no command in progress and cannot start one
C12_Witness ==
    /\ job[2].busy
    /\ job[2].next = 2
    /\ OpsOf(job[2].events) = <<"wait", "clear", "write_str">>
    /\ ~job[1].busy
    /\ ~CanBorrow(1)

(***************************************************************************)
(* C13: the side effects of a command are limited to at most one wait, at  *)
(* most one clear and one controller capability: every non-write command   *)
(* invokes exactly the capability the command table lists for it, once,    *)
(* and nothing else; a display command invokes nothing but its pre-clear   *)
(* and its write-family capability, each at most once; no command changes  *)
(* update_screen_time.                                                     *)
(***************************************************************************)
\* the command table: the capability column
TableCap(c) ==
    IF c = "display_text" THEN "write_str"
    ELSE IF c = "display_byte" THEN "write_byte"
    ELSE IF c = "display_bytes" THEN "write_bytes"
    ELSE IF c = "display_char" THEN "write_char"
    ELSE IF c = "display_int" THEN "write_str"
    ELSE IF c = "display_float" THEN "write_str"
    ELSE IF c = "clear_display" THEN "clear"
    ELSE IF c = "reset_display" THEN "reset"
    ELSE IF c = "set_display_mode" THEN "set_display"
    ELSE IF c = "set_cursor_visibility" THEN "set_cursor_visibility"
    ELSE IF c = "set_cursor_blink" THEN "set_cursor_blink"
    ELSE IF c = "move_cursor_direction" THEN "shift_cursor"
    ELSE IF c = "set_autoscroll" THEN "set_autoscroll"
    ELSE "set_cursor_pos"

CountOp(tr, op) == Cardinality({i \in 1 .. Len(tr) : tr[i].op = op})

C13_Step ==
    cmd' \notin {"none", "new"} =>
        /\ update_screen_time' = update_screen_time
        /\ configured' = configured
        /\ CountOp(trace', "wait") <= 1
        /\ CountOp(trace', "clear") <= 1
        /\ Len(Caps(trace')) >= 1
        /\ \A i \in 1 .. Len(trace') :
              trace'[i].op \in {"wait", "clear", TableCap(cmd')}
        /\ IF cmd' \in DisplayCommands
           THEN CountOp(trace', TableCap(cmd')) <= 1
           ELSE OpsOf(Caps(trace')) = <<TableCap(cmd')>>

C13_SideEffects == [][C13_Step]_vars

\* set_display_mode(Off): one wait, one set_display, nothing else
C13_Witness ==
    /\ cmd = "set_display_mode"
    /\ args.enum = "Off"
    /\ OpsOf(trace) = <<"wait", "set_display">>
    /\ update_screen_time = configured
    /\ configured = MaxUst

(***************************************************************************)
(* C14: the session's update_screen_time is the value given at             *)
(* construction in every state, and every wait of the Timing Gate, the one *)
(* of construction and the one of each paced command, lasts exactly that   *)
(* value.                                                                  *)
(***************************************************************************)
\* how long call i of the last operation lasted
Lasted(i) == (IF i < Len(trace) THEN trace[i + 1].t ELSE elapsed) - trace[i].t

C14_UpdateScreenTime ==
    /\ pc = "ready" => update_screen_time = configured
    /\ \A i \in 1 .. Len(trace) :
          trace[i].op = "wait" =>
              (trace[i].num = configured /\ Lasted(i) = configured)

\* reset_display on a session built with the longest interval
C14_Witness ==
    /\ cmd = "reset_display"
    /\ configured = MaxUst
    /\ OpsOf(trace) = <<"wait", "reset">>
    /\ trace[2].t = MaxUst

(***************************************************************************)
(* C15: the boolean commands pass the matching capability value and        *)
(* nothing else: set_cursor_visibility(true) Visible, (false) Invisible;   *)
(* set_cursor_blink(true) On, (false) Off; move_cursor_direction(Left)     *)
(* shifts Left, (Right) Right; set_autoscroll(b) passes b.                 *)
(***************************************************************************)
\* the one controller call of the last command
TheCall == Caps(trace)[1]

C15_BoolMapping ==
    /\ cmd = "set_cursor_visibility" =>
          /\ OpsOf(Caps(trace)) = <<"set_cursor_visibility">>
          /\ TheCall.enum = (IF args.flag THEN "Visible" ELSE "Invisible")
          /\ TheCall.num = 0 /\ TheCall.data = <<>> /\ ~TheCall.flag
    /\ cmd = "set_cursor_blink" =>
          /\ OpsOf(Caps(trace)) = <<"set_cursor_blink">>
          /\ TheCall.enum = (IF args.flag THEN "On" ELSE "Off")
          /\ TheCall.num = 0 /\ TheCall.data = <<>> /\ ~TheCall.flag
    /\ cmd = "move_cursor_direction" =>
          /\ OpsOf(Caps(trace)) = <<"shift_cursor">>
          /\ args.enum \in {"Left", "Right"}
          /\ TheCall.enum = args.enum
          /\ TheCall.num = 0 /\ TheCall.data = <<>> /\ ~TheCall.flag
    /\ cmd = "set_autoscroll" =>
          /\ OpsOf(Caps(trace)) = <<"set_autoscroll">>
          /\ TheCall.flag = args.flag
          /\ TheCall.enum = "-" /\ TheCall.num = 0 /\ TheCall.data = <<>>

\* set_cursor_blink(true) reached the controller as On
C15_Witness ==
    /\ cmd = "set_cursor_blink"
    /\ args.flag
    /\ TheCall.enum = "On"

(***************************************************************************)
(* C16: display_int(x, _) passes to write_str the canonical base-10 text   *)
(* of x: no leading zeros except for 0 itself ("0"), a leading '-' exactly *)
(* when x is negative, no padding; reading the text back as a decimal      *)
(* integer gives x.                                                        *)
(***************************************************************************)
RECURSIVE ParseDigits(_)
ParseDigits(s) ==
    IF s = <<>> THEN 0
    ELSE 10 * ParseDigits(SubSeq(s, 1, Len(s) - 1)) + (s[Len(s)] - 48)

ParseInt(s) == IF s[1] = 45 THEN 0 - ParseDigits(Tail(s)) ELSE ParseDigits(s)

IsCanonical(w, x) ==
    /\ Len(w) >= 1
    /\ (w[1] = 45) <=> (x < 0)
    /\ LET dg == IF w[1] = 45 THEN Tail(w) ELSE w
       IN /\ Len(dg) >= 1
          /\ \A i \in 1 .. Len(dg) : dg[i] \in 48 .. 57
          /\ (Len(dg) > 1 => dg[1] # 48)
    /\ (x = 0 => w = <<48>>)

C16_IntFormat ==
    cmd = "display_int" =>
        \A i \in 1 .. Len(trace) :
            trace[i].op \in WriteFamily =>
                /\ trace[i].op = "write_str"
                /\ IsCanonical(trace[i].data, args.num)
                /\ ParseInt(trace[i].data) = args.num

\* display_int(-105, false) wrote "-105"
C16_Witness ==
    /\ cmd = "display_int"
    /\ args.num = -105
    /\ ~cd
    /\ Len(trace) = 1
    /\ trace[1].data = <<45, 49, 48, 53>>

(***************************************************************************)
(* C17: when a display command is called with clear_display = true and the *)
(* pre-clear fails, the command returns the error tagged ClearError with   *)
(* the clear's cause, and its write-family capability is never invoked.    *)
(***************************************************************************)
C17_PreClearFails ==
    (cmd \in DisplayCommands /\ cd) =>
        \A i \in 1 .. Len(trace) :
            (trace[i].op = "clear" /\ ~trace[i].ok) =>
                /\ result = Err("ClearError", trace[i].cause)
                /\ \A j \in 1 .. Len(trace) : trace[j].op \notin WriteFamily

\* display_float with a pre-clear that failed with the first cause
C17_Witness ==
    /\ cmd = "display_float"
    /\ cd
    /\ OpsOf(trace) = <<"clear">>
    /\ result = Err("ClearError", "E1")

(***************************************************************************)
(* C18: for display_text, display_byte, display_bytes and display_char     *)
(* called with clear_display = true the order is wait, clear, write: the   *)
(* single wait precedes the pre-clear, no wait falls between the clear and *)
(* the write, and the wait is made even when the clear or the write fails. *)
(***************************************************************************)
PacedDisplayCommands == {"display_text", "display_byte", "display_bytes", "display_char"}

C18_WaitClearWrite ==
    (cmd \in PacedDisplayCommands /\ cd) =>
        /\ Len(trace) >= 2
        /\ trace[1].op = "wait"
        /\ trace[2].op = "clear"
        /\ IF trace[2].ok
           THEN OpsOf(trace) = <<"wait", "clear", TableCap(cmd)>>
           ELSE OpsOf(trace) = <<"wait", "clear">>

\* display_char: waited, cleared, and the write failed
C18_Witness ==
    /\ cmd = "display_char"
    /\ cd
    /\ OpsOf(trace) = <<"wait", "clear", "write_char">>
    /\ ~trace[3].ok
    /\ trace[2].t = MaxUst

(***************************************************************************)
(* C19: the session keeps no ready or failed flag.  What a command issues  *)
(* and returns is a function of the command, its arguments and the results *)
(* of the capabilities it invokes, whatever happened before: after a       *)
(* failed initialization or a failed command every command can still be    *)
(* called, runs its whole micro-protocol and returns Ok or Err.            *)
(***************************************************************************)
\* the pre-clear of the last command was issued and failed
PreClearFailed ==
    /\ cmd \in DisplayCommands
    /\ \E i \in 1 .. Len(trace) : trace[i].op = "clear" /\ ~trace[i].ok

\* the micro-protocol of the command table for the last command
ExpectedOps ==
    (IF cmd \in PreWaitYes THEN <<"wait">> ELSE <<>>)
    \o (IF cmd \in DisplayCommands /\ cd THEN <<"clear">> ELSE <<>>)
    \o (IF PreClearFailed THEN <<>> ELSE <<TableCap(cmd)>>)

ExpectedResult ==
    IF \A i \in 1 .. Len(trace) : trace[i].ok THEN Ok
    ELSE LET f == CHOOSE i \in 1 .. Len(trace) : ~trace[i].ok
         IN Err(IF PreClearFailed THEN "ClearError" ELSE TableTag(cmd), trace[f].cause)

EveryCommandEnabled ==
    /\ ENABLED DisplayText /\ ENABLED DisplayByte /\ ENABLED DisplayBytes
    /\ ENABLED DisplayChar /\ ENABLED DisplayInt /\ ENABLED DisplayFloat
    /\ ENABLED ClearDisplay /\ ENABLED ResetDisplay /\ ENABLED SetDisplayMode
    /\ ENABLED SetCursorVisibility /\ ENABLED SetCursorBlink
    /\ ENABLED MoveCursorDirection /\ ENABLED SetAutoscroll /\ ENABLED SetCursorPos

C19_NoFlag ==
    /\ pc = "ready" => EveryCommandEnabled
    /\ IsCommand =>
          /\ OpsOf(trace) = ExpectedOps
          /\ result = ExpectedResult
          /\ result.kind \in {"Ok", "Err"}
          /\ pc = "ready"

\* after a failed initialization set_cursor_pos ran in full and succeeded
C19_Witness ==
    /\ log = "LCD Init Failed"
    /\ cmd = "set_cursor_pos"
    /\ OpsOf(trace) = <<"wait", "set_cursor_pos">>
    /\ result = Ok

====
